---- MODULE Spec2Model ----
(***************************************************************************)
(* Provider abstraction and usage ledger of the llmhub gateway.            *)
(*                                                                         *)
(*   Spec          the request handlers that call a provider and write the *)
(*                 usage ledger (routers/, services/billing.py)            *)
(*   SpecRegistry  ProviderRegistry (providers/__init__.py)                *)
(*   SpecDispatch  the provider/model selection functions (routers/v2)     *)
(***************************************************************************)
EXTENDS Integers, Sequences, FiniteSets, TLC

VARIABLES
    settingsKeys,   \* the providers whose API key is set in Settings (fixed at start)
    ledger,         \* the rows of llm_generation_log, in insertion order
    attempts,       \* client -> number of requests handled for it so far
    last,           \* what the most recent request did (trace, writes, response)
    providers,      \* ProviderRegistry._providers, as a set of <<name, class>> items
    instances,      \* ProviderRegistry._instances, as a set of instance records
    lastOp,         \* the most recent ProviderRegistry call and what it returned
    sel,            \* the most recent selection call and what it returned
    calc,           \* the most recent cost or budget computation and its result
    task,           \* the adapter call in progress: phase, clock, polls, outcome
    clientBudgets   \* client -> APIClient.monthly_budget_usd in cents (0: none set)

vars == <<settingsKeys, ledger, attempts, last, providers, instances, lastOp, sel,
          calc, task, clientBudgets>>

None == "None"

(***************************************************************************)
(* Bounds                                                                  *)
(***************************************************************************)
MaxAttempts == 1    \* requests handled in one behaviour
MaxLangs == 2       \* target languages of one translate request
MaxPeriods == 3     \* timeout periods a blocked adapter call is watched for
MaxRecords == 2     \* rows written by direct calls of log_generation

Clients == {"c1", "c2"}
\* the (input_tokens, output_tokens) a provider reports
TokenPairs == {<<0, 0>>, <<1, 2>>}
KeyNames == {"claude", "openai", "cohere"}

(***************************************************************************)
(* Python truthiness of an Optional[str]                                   *)
(***************************************************************************)
Truthy(s) == s # None /\ s # ""

(***************************************************************************)
(* services/billing.py                                                     *)
(***************************************************************************)
\* One row of the ledger.  attempt is the number of the request that wrote it
\* (the model's stand-in for log_id / created_at, which identify the row).
LLMGenerationLog(attempt, client, endpoint, provider, model, input_tokens, output_tokens, input_cost_usd, output_cost_usd, success, error_type) ==
    [attempt |-> attempt, client_id |-> client, endpoint |-> endpoint,
     provider |-> provider, model |-> model,
     input_tokens |-> input_tokens, output_tokens |-> output_tokens,
     input_cost_usd |-> input_cost_usd, output_cost_usd |-> output_cost_usd,
     success |-> success, error_type |-> error_type]

\* BillingService.log_generation: add + commit; on a storage failure roll back,
\* log the error and re-raise it.
log_generation(db, log_entry, commitOk) ==
    IF commitOk
    THEN [db |-> Append(db, log_entry), raised |-> FALSE]
    ELSE [db |-> db, raised |-> TRUE]

(***************************************************************************)
(* The course of one request: the ledger it leaves, the order of its       *)
(* steps, its calls of log_generation and the response the caller gets.    *)
(***************************************************************************)
NewRun(db) ==
    [db |-> db, events |-> <<>>, writes |-> <<>>, calls |-> 0, callOk |-> FALSE,
     results |-> <<>>, status |-> 0, code |-> None]

\* a provider call of this request has resolved: it returned result (with the
\* cost it reports) or raised
Resolved(run, result) ==
    [run EXCEPT !.events = Append(@, "provider_resolved"),
                !.calls = @ + 1, !.callOk = result.ok,
                !.results = Append(@, [ok |-> result.ok,
                                       cost_usd |-> result.cost_usd])]

\* the handler calls log_generation; the entry records provider call number
\* run.calls (0: no provider call was made before the write)
Log(run, log_entry, commitOk) ==
    LET r == log_generation(run.db, log_entry, commitOk)
    IN  [run EXCEPT !.db = r.db,
                    !.events = Append(@, "ledger_write"),
                    !.writes = Append(@, [success |-> log_entry.success,
                                          error_type |-> log_entry.error_type,
                                          input_cost_usd |-> log_entry.input_cost_usd,
                                          output_cost_usd |-> log_entry.output_cost_usd,
                                          call |-> run.calls,
                                          at |-> Len(run.events) + 1,
                                          stored |-> ~r.raised,
                                          raised |-> r.raised])]

\* the handler returns or raises HTTPException: the caller gets its response
Respond(run, status, code) ==
    [run EXCEPT !.events = Append(@, "response"), !.status = status, !.code = code]

(***************************************************************************)
(* Python strings: the text of a model identifier, str.lower and the       *)
(* substring test `pattern in text`                                        *)
(***************************************************************************)
\* the characters of the model identifiers the requests of this model carry
Chars(s) ==
    CASE
         s = "gpt-4-turbo" -> <<"g", "p", "t", "-", "4", "-", "t", "u", "r", "b", "o">>
      [] s = "Claude-3-Opus" -> <<"C", "l", "a", "u", "d", "e", "-", "3", "-", "O", "p", "u", "s">>
      [] s = "text-embedding-3-small" -> <<"t", "e", "x", "t", "-", "e", "m", "b", "e", "d", "d", "i", "n", "g", "-", "3", "-", "s", "m", "a", "l", "l">>
      [] s = "embed-english-v3.0" -> <<"e", "m", "b", "e", "d", "-", "e", "n", "g", "l", "i", "s", "h", "-", "v", "3", ".", "0">>
      [] s = "nova-3" -> <<"n", "o", "v", "a", "-", "3">>
      [] s = "whisper-1" -> <<"w", "h", "i", "s", "p", "e", "r", "-", "1">>
      [] s = "my-model" -> <<"m", "y", "-", "m", "o", "d", "e", "l">>
      [] s = "claude-3-5-sonnet-20241022" -> <<"c", "l", "a", "u", "d", "e", "-", "3", "-", "5", "-", "s", "o", "n", "n", "e", "t", "-", "2", "0", "2", "4", "1", "0", "2", "2">>
      [] s = "claude" -> <<"c", "l", "a", "u", "d", "e">>
      [] s = "sonnet" -> <<"s", "o", "n", "n", "e", "t">>
      [] s = "opus" -> <<"o", "p", "u", "s">>
      [] OTHER -> <<>>

UpperCase == <<"A","B","C","D","E","F","G","H","I","J","K","L","M",
               "N","O","P","Q","R","S","T","U","V","W","X","Y","Z">>
LowerCase == <<"a","b","c","d","e","f","g","h","i","j","k","l","m",
               "n","o","p","q","r","s","t","u","v","w","x","y","z">>

LowerChar(c) ==
    IF \E i \in DOMAIN UpperCase : UpperCase[i] = c
    THEN LowerCase[CHOOSE i \in DOMAIN UpperCase : UpperCase[i] = c]
    ELSE c

\* str.lower()
Lower(cs) == [i \in DOMAIN cs |-> LowerChar(cs[i])]

\* pattern in text
Contains(text, pattern) ==
    \E i \in 0..(Len(text) - Len(pattern)) :
        SubSeq(text, i + 1, i + Len(pattern)) = pattern

\* dict.get(key, default)
DictGet(d, key, default) == IF key \in DOMAIN d THEN d[key] ELSE default

\* the first index of a non-empty set of indices (the first hit of a loop)
Min(S) == CHOOSE x \in S : \A y \in S : x <= y

(***************************************************************************)
(* What a selection call does: return a (provider, model) tuple or raise   *)
(***************************************************************************)
Return(provider, model) ==
    [provider |-> provider, model |-> model, ok |-> TRUE, error |-> None]

Raise(error) ==
    [provider |-> None, model |-> None, ok |-> FALSE, error |-> error]

(***************************************************************************)
(* config/settings.py                                                      *)
(***************************************************************************)
DEFAULT_PROVIDER == "claude"
DEFAULT_MODEL == "claude-3-5-sonnet-20241022"

(***************************************************************************)
(* services/llm_core.py and services/embeddings_service.py                 *)
(***************************************************************************)
\* the attributes of the llm_core object (LLMCoreService)
LLMCoreServiceAttrs ==
    {"anthropic_client", "openai_client", "groq_client", "call_llm",
     "_call_claude", "_call_openai", "_call_groq", "count_tokens"}

\* llm_core.get_available_providers(): LLMCoreService defines no such method,
\* so the attribute lookup raises AttributeError
llm_core_get_available_providers ==
    IF "get_available_providers" \in LLMCoreServiceAttrs
    THEN [raised |-> None, value |-> settingsKeys]
    ELSE [raised |-> "AttributeError", value |-> {}]

\* EmbeddingsService.providers after _initialize_providers
embeddings_service_providers ==
    {p \in {"openai", "cohere"} : p \in settingsKeys}

\* EmbeddingsService.get_available_providers
embeddings_service_get_available_providers == embeddings_service_providers

(***************************************************************************)
(* routers/v2/text.py                                                      *)
(***************************************************************************)
text_provider_defaults ==
    [claude |-> "claude-3-5-sonnet-20241022", openai |-> "gpt-4-turbo",
     groq |-> "mixtral-8x7b-32768", google |-> "gemini-1.5-pro",
     mistral |-> "mistral-large", ollama |-> "llama2"]

task_routing ==
    [fast |-> <<"groq", "mixtral-8x7b-32768">>,
     quality |-> <<"claude", "claude-3-5-sonnet-20241022">>,
     translation |-> <<"openai", "gpt-4-turbo">>,
     analysis |-> <<"claude", "claude-3-5-sonnet-20241022">>,
     general |-> <<DEFAULT_PROVIDER, DEFAULT_MODEL>>]

\* a variant that trusts the provider the model name suggests over the
\* provider the caller names
_select_provider_and_model_InferFirst(request_provider, request_model, task_type) ==
    IF Truthy(request_model)
       /\ Contains(Lower(Chars(request_model)), <<"c","l","a","u","d","e">>)
    THEN Return("claude", request_model)
    ELSE IF Truthy(request_provider) /\ Truthy(request_model)
    THEN Return(request_provider, request_model)
    ELSE IF Truthy(request_provider)
    THEN Return(request_provider,
                DictGet(text_provider_defaults, request_provider, "gpt-4-turbo"))
    ELSE Return(DictGet(task_routing, task_type, task_routing["general"])[1],
                IF Truthy(request_model) THEN request_model
                ELSE DictGet(task_routing, task_type, task_routing["general"])[2])

_select_provider_and_model(request_provider, request_model, task_type) ==
    IF Truthy(request_provider) /\ Truthy(request_model)
    THEN Return(request_provider, request_model)
    ELSE IF Truthy(request_provider)
    THEN Return(request_provider,
                DictGet(text_provider_defaults, request_provider, "gpt-4-turbo"))
    ELSE
      LET routed == DictGet(task_routing, task_type, task_routing["general"])
          lower == Lower(Chars(request_model))
      IN  IF Truthy(request_model)
          THEN IF Contains(lower, <<"c","l","a","u","d","e">>)
               THEN Return("claude", request_model)
               ELSE IF Contains(lower, <<"g","p","t">>)
               THEN Return("openai", request_model)
               ELSE IF Contains(lower, <<"m","i","x","t","r","a","l">>)
                       \/ Contains(lower, <<"l","l","a","m","a">>)
               THEN Return("groq", request_model)
               ELSE IF Contains(lower, <<"g","e","m","i","n","i">>)
               THEN Return("google", request_model)
               ELSE IF Contains(lower, <<"m","i","s","t","r","a","l">>)
               THEN Return("mistral", request_model)
               ELSE Return(routed[1], request_model)
          ELSE Return(routed[1], routed[2])

(***************************************************************************)
(* routers/v2/audio.py                                                     *)
(***************************************************************************)
transcription_provider_defaults ==
    [deepgram |-> "nova-3", assemblyai |-> "best", openai |-> "whisper-1"]

_select_transcription_provider_and_model(request_provider, request_model) ==
    IF Truthy(request_provider) /\ Truthy(request_model)
    THEN Return(request_provider, request_model)
    ELSE IF Truthy(request_provider)
    THEN Return(request_provider,
                DictGet(transcription_provider_defaults, request_provider, "nova-3"))
    ELSE
      LET available == llm_core_get_available_providers
      IN  IF available.raised # None THEN Raise(available.raised)
          ELSE IF "deepgram" \in available.value THEN Return("deepgram", "nova-3")
          ELSE IF "assemblyai" \in available.value THEN Return("assemblyai", "best")
          ELSE IF "openai" \in available.value THEN Return("openai", "whisper-1")
          ELSE Raise("ValueError")

(***************************************************************************)
(* routers/v2/video.py                                                     *)
(***************************************************************************)
video_provider_defaults ==
    [runway |-> "gen4_turbo", pika |-> "pika-2.2-720p", sora |-> "sora-1.0"]

_select_video_provider_and_model(request_provider, request_model) ==
    IF Truthy(request_provider) /\ Truthy(request_model)
    THEN Return(request_provider, request_model)
    ELSE IF Truthy(request_provider)
    THEN Return(request_provider,
                DictGet(video_provider_defaults, request_provider, "gen4_turbo"))
    ELSE
      LET available == llm_core_get_available_providers
      IN  IF available.raised # None THEN Raise(available.raised)
          ELSE IF "pika" \in available.value THEN Return("pika", "pika-2.2-720p")
          ELSE IF "runway" \in available.value THEN Return("runway", "gen4_turbo")
          ELSE Raise("ValueError")

(***************************************************************************)
(* routers/v2/embeddings.py                                                *)
(***************************************************************************)
embeddings_provider_defaults ==
    [openai |-> "text-embedding-3-small", cohere |-> "embed-english-v3.0"]

\* the default branch of the selection: Cohere first, then OpenAI
embeddings_default ==
    LET available == embeddings_service_get_available_providers
    IN  IF "cohere" \in available THEN Return("cohere", "embed-english-v3.0")
        ELSE IF "openai" \in available
        THEN Return("openai", "text-embedding-3-small")
        ELSE Raise("ValueError")

_select_embeddings_provider_and_model(request_provider, request_model) ==
    IF Truthy(request_provider) /\ Truthy(request_model)
    THEN Return(request_provider, request_model)
    ELSE IF Truthy(request_provider)
    THEN Return(request_provider,
                DictGet(embeddings_provider_defaults, request_provider,
                        "text-embedding-3-small"))
    ELSE
      LET lower == Lower(Chars(request_model))
      IN  IF Truthy(request_model)
          THEN IF Contains(lower, <<"t","e","x","t","-","e","m","b","e","d","d","i","n","g">>)
                  \/ Contains(lower, <<"a","d","a">>)
               THEN Return("openai", request_model)
               ELSE IF Contains(lower, <<"e","m","b","e","d">>)
               THEN Return("cohere", request_model)
               ELSE embeddings_default
          ELSE embeddings_default

(***************************************************************************)
(* Money.  An amount is an integer number of 10^-9 USD; a rate is an       *)
(* integer number of 10^-9 USD per token, that is the source's rate in USD *)
(* per 1K tokens times 10^6, so (tokens / 1000) * rate is tokens * rate.   *)
(* Arithmetic is exact where the source computes in binary floating point. *)
(***************************************************************************)
\* round(x, 6): to the nearest multiple of 10^-6 USD, a tie to the even one
Round6(n) ==
    LET q == n \div 1000
        r == n % 1000
    IN  IF r < 500 THEN q * 1000
        ELSE IF r > 500 THEN (q + 1) * 1000
        ELSE IF q % 2 = 0 THEN q * 1000 ELSE (q + 1) * 1000

\* An amount that a handler derives by multiplying and dividing is kept as the
\* fraction n / d (of 10^-9 USD) it is before any rounding.
Frac(n, d) == [n |-> n, d |-> d]
Whole(n) == Frac(n, 1)
\* cost * (part / whole)
Share(cost, part, whole) == Frac(cost * part, whole)
FracSum(a, b) == Frac(a.n * b.d + b.n * a.d, a.d * b.d)
\* is the amount a whole number of 10^-6 USD, i.e. equal to its round(x, 6)
IsRounded6(a) == a.n % (1000 * a.d) = 0
\* round(x, 6) of a non-negative fraction, in 10^-9 USD
RoundFrac6(a) ==
    LET unit == 1000 * a.d
        q == a.n \div unit
        r == a.n % unit
    IN  IF 2 * r < unit THEN q * 1000
        ELSE IF 2 * r > unit THEN (q + 1) * 1000
        ELSE IF q % 2 = 0 THEN q * 1000 ELSE (q + 1) * 1000

\* a function returned value / raised error
Returns(value) == [value |-> value, raised |-> None]
Raises(error) == [value |-> 0, raised |-> error]

(***************************************************************************)
(* providers/base.py: BaseProvider.calculate_cost                          *)
(***************************************************************************)
\* the final fallback rates, 0.01 and 0.03 USD per 1K tokens
DEFAULT_INPUT_RATE == 10000
DEFAULT_OUTPUT_RATE == 30000

\* config.pricing is a dict: here the sequence of its items in insertion order,
\* each [key, input, output]; <<>> stands for both None and {} (`not pricing`)
PricingKeysOf(pricing) == {pricing[i].key : i \in DOMAIN pricing}

\* the items whose key, lowercased, is a substring of the lowercased model
PatternMatches(pricing, model) ==
    {i \in DOMAIN pricing :
        Contains(Lower(Chars(model)), Lower(Chars(pricing[i].key)))}

calculate_cost(pricing, model, input_tokens, output_tokens) ==
    IF pricing = <<>> \/ model \notin PricingKeysOf(pricing)
    THEN IF PatternMatches(pricing, model) # {}
         THEN LET costs == pricing[Min(PatternMatches(pricing, model))]
              IN  Returns(Round6(input_tokens * costs.input
                                 + output_tokens * costs.output))
         ELSE Returns(Round6(input_tokens * DEFAULT_INPUT_RATE
                             + output_tokens * DEFAULT_OUTPUT_RATE))
    ELSE LET costs == pricing[CHOOSE i \in DOMAIN pricing : pricing[i].key = model]
         IN  Returns(Round6(input_tokens * costs.input + output_tokens * costs.output))

(***************************************************************************)
(* providers/base_embeddings.py: BaseEmbeddingsProvider.calculate_cost     *)
(***************************************************************************)
\* the final fallback rate, 0.0001 USD per 1K tokens
EMBEDDINGS_DEFAULT_RATE == 100

\* a variant that looks the model up without a fallback
embeddings_calculate_cost_NoFallback(pricing, model, total_tokens) ==
    IF model \notin PricingKeysOf(pricing) THEN Raises("KeyError")
    ELSE Returns(Round6(total_tokens
            * pricing[CHOOSE i \in DOMAIN pricing : pricing[i].key = model].rate))

\* config.pricing maps a key to one rate: items [key, rate]
embeddings_calculate_cost(pricing, model, total_tokens) ==
    IF pricing = <<>> \/ model \notin PricingKeysOf(pricing)
    THEN IF PatternMatches(pricing, model) # {}
         THEN Returns(Round6(total_tokens
                              * pricing[Min(PatternMatches(pricing, model))].rate))
         ELSE Returns(Round6(total_tokens * EMBEDDINGS_DEFAULT_RATE))
    ELSE Returns(Round6(total_tokens
            * pricing[CHOOSE i \in DOMAIN pricing : pricing[i].key = model].rate))

(***************************************************************************)
(* config/settings.py: Settings.get_cost_per_1k_tokens                     *)
(***************************************************************************)
OPENAI_GPT4_INPUT_COST == 30000
OPENAI_GPT4_OUTPUT_COST == 60000
OPENAI_GPT4_TURBO_INPUT_COST == 10000
OPENAI_GPT4_TURBO_OUTPUT_COST == 30000
OPENAI_GPT35_INPUT_COST == 1500
OPENAI_GPT35_OUTPUT_COST == 2000
ANTHROPIC_CLAUDE_OPUS_INPUT_COST == 15000
ANTHROPIC_CLAUDE_OPUS_OUTPUT_COST == 75000
ANTHROPIC_CLAUDE_SONNET_INPUT_COST == 3000
ANTHROPIC_CLAUDE_SONNET_OUTPUT_COST == 15000
ANTHROPIC_CLAUDE_HAIKU_INPUT_COST == 250
ANTHROPIC_CLAUDE_HAIKU_OUTPUT_COST == 1250
GROQ_MIXTRAL_INPUT_COST == 270
GROQ_MIXTRAL_OUTPUT_COST == 270
GROQ_LLAMA_INPUT_COST == 70
GROQ_LLAMA_OUTPUT_COST == 70

\* the patterns and rates of a provider, in the order the code tests them;
\* the test is `pattern in model`, with the model as the caller wrote it
SettingsPricing(provider) ==
    CASE provider = "openai" ->
           << [key |-> <<"g","p","t","-","4","-","t","u","r","b","o">>,
               input |-> OPENAI_GPT4_TURBO_INPUT_COST, output |-> OPENAI_GPT4_TURBO_OUTPUT_COST],
              [key |-> <<"g","p","t","-","4","-","1","1","0","6">>,
               input |-> OPENAI_GPT4_TURBO_INPUT_COST, output |-> OPENAI_GPT4_TURBO_OUTPUT_COST],
              [key |-> <<"g","p","t","-","4">>,
               input |-> OPENAI_GPT4_INPUT_COST, output |-> OPENAI_GPT4_OUTPUT_COST],
              [key |-> <<"g","p","t","-","3",".","5">>,
               input |-> OPENAI_GPT35_INPUT_COST, output |-> OPENAI_GPT35_OUTPUT_COST] >>
      [] provider = "claude" ->
           << [key |-> <<"o","p","u","s">>,
               input |-> ANTHROPIC_CLAUDE_OPUS_INPUT_COST, output |-> ANTHROPIC_CLAUDE_OPUS_OUTPUT_COST],
              [key |-> <<"s","o","n","n","e","t">>,
               input |-> ANTHROPIC_CLAUDE_SONNET_INPUT_COST, output |-> ANTHROPIC_CLAUDE_SONNET_OUTPUT_COST],
              [key |-> <<"h","a","i","k","u">>,
               input |-> ANTHROPIC_CLAUDE_HAIKU_INPUT_COST, output |-> ANTHROPIC_CLAUDE_HAIKU_OUTPUT_COST] >>
      [] provider = "groq" ->
           << [key |-> <<"m","i","x","t","r","a","l">>,
               input |-> GROQ_MIXTRAL_INPUT_COST, output |-> GROQ_MIXTRAL_OUTPUT_COST],
              [key |-> <<"l","l","a","m","a">>,
               input |-> GROQ_LLAMA_INPUT_COST, output |-> GROQ_LLAMA_OUTPUT_COST] >>
      [] OTHER -> <<>>

get_cost_per_1k_tokens(provider, model, token_type) ==
    LET table == SettingsPricing(provider)
        hits == {i \in DOMAIN table : Contains(Chars(model), table[i].key)}
    IN  IF hits # {}
        THEN IF token_type = "input" THEN table[Min(hits)].input
             ELSE table[Min(hits)].output
        ELSE IF token_type = "input" THEN DEFAULT_INPUT_RATE ELSE DEFAULT_OUTPUT_RATE

(***************************************************************************)
(* The provider call, as the handlers see it                               *)
(***************************************************************************)
\* what the external service answers once it is reached
ApiOutcomes ==
    {[ok |-> TRUE, input_tokens |-> t[1], output_tokens |-> t[2], error |-> None] :
        t \in TokenPairs}
    \cup {[ok |-> FALSE, input_tokens |-> 0, output_tokens |-> 0, error |-> "APIError"]}

Failed(error) ==
    [ok |-> FALSE, input_tokens |-> 0, output_tokens |-> 0, cost_usd |-> 0,
     error |-> error]

\* LLMCoreService._call_claude / _call_openai / _call_groq: the cost of the
\* tokens the service reports, at the rates of Settings, rounded
llm_core_cost(provider, model, input_tokens, output_tokens) ==
    Round6(input_tokens * get_cost_per_1k_tokens(provider, model, "input")
           + output_tokens * get_cost_per_1k_tokens(provider, model, "output"))

\* LLMCoreService.call_llm(provider, model, messages, max_tokens, temperature,
\* system_prompt): it takes no further keyword arguments, routes on the provider
\* name and needs that provider's client (created when its API key is set)
call_llm(provider, model, extra_kwargs, api) ==
    IF extra_kwargs THEN Failed("TypeError")
    ELSE IF provider \notin {"claude", "openai", "groq"} THEN Failed("ValueError")
    ELSE IF provider \notin settingsKeys THEN Failed("ValueError")
    ELSE IF ~api.ok THEN Failed(api.error)
    ELSE [ok |-> TRUE, input_tokens |-> api.input_tokens,
          output_tokens |-> api.output_tokens,
          cost_usd |-> llm_core_cost(provider, model, api.input_tokens,
                                     api.output_tokens),
          error |-> None]

\* EmbeddingsService.generate_embeddings(texts, provider, model) with texts
\* non-empty (the request schema requires one) and provider given
embeddings_service_generate_embeddings(provider, model, api) ==
    IF provider \notin embeddings_service_providers THEN Failed("ValueError")
    ELSE IF ~api.ok THEN Failed(api.error)
    ELSE [ok |-> TRUE, input_tokens |-> api.input_tokens,  \* response.total_tokens
          output_tokens |-> 0,
          \* no pricing file ships with the service: the providers' pricing is {}
          cost_usd |-> embeddings_calculate_cost(<<>>, model, api.input_tokens).value,
          error |-> None]

\* BillingService.check_budget_alert as the handlers see it: for a client
\* without a budget it returns at once; otherwise it reads the store and
\* returns, or the read raises
check_budget_alert(monthly_budget_usd, readOk) ==
    IF monthly_budget_usd = 0 THEN None
    ELSE IF readOk THEN None
    ELSE "SQLAlchemyError"

\* BillingService.check_budget_alert, the value it computes: the budget and the
\* month's cost in cents; monthly_budget_usd = 0 stands for no budget set,
\* has_row for a row of the client in v_current_month_costs
check_budget_alert_level(monthly_budget_usd, has_row, current_cost) ==
    IF monthly_budget_usd = 0 THEN None
    ELSE IF ~has_row THEN None
    \* usage_pct = current_cost / budget * 100; usage_pct >= 80
    ELSE IF current_cost * 100 >= 80 * monthly_budget_usd THEN "budget_warning"
    ELSE None

\* routers/billing.py get_current_month_usage: the budget_alert of its answer
get_current_month_usage(monthly_budget_usd, has_row, total_cost) ==
    IF ~has_row THEN None
    ELSE IF monthly_budget_usd > 0
    THEN IF total_cost * 100 >= 100 * monthly_budget_usd THEN "EXCEEDED"
         ELSE IF total_cost * 100 >= 90 * monthly_budget_usd THEN "CRITICAL"
         ELSE IF total_cost * 100 >= 80 * monthly_budget_usd THEN "WARNING"
         ELSE None
    ELSE None

\* a call of check_budget_alert writes an alert row to the ledger
check_budget_alert_call_Recording(db, monthly_budget_usd, has_row, current_cost) ==
    LET alert == check_budget_alert_level(monthly_budget_usd, has_row, current_cost)
    IN  [db |-> IF alert = None THEN db
                ELSE Append(db, LLMGenerationLog(Len(db) + 1, None, "/budget-alert",
                                                 None, None, 0, 0, Whole(0), Whole(0),
                                                 FALSE, alert)),
         monthly_budget_usd |-> monthly_budget_usd,
         alert |-> alert]

\* BillingService.check_budget_alert(db, client) as a call: the session and
\* the client's budget after it, and the alert it returns.  It executes one
\* SELECT and neither adds, commits nor assigns.
check_budget_alert_call(db, monthly_budget_usd, has_row, current_cost) ==
    [db |-> db,
     monthly_budget_usd |-> monthly_budget_usd,
     alert |-> check_budget_alert_level(monthly_budget_usd, has_row, current_cost)]

\* did the handler's latest log_generation call raise
LastWriteRaised(run) == run.writes[Len(run.writes)].raised

(***************************************************************************)
(* routers/v2/text.py: _call_llm_with_prompt                               *)
(***************************************************************************)
\* a variant that answers the caller first and writes the ledger afterwards
_call_llm_with_prompt_RespondFirst(db, attempt, client, endpoint, provider, model, api, commit1, commit2) ==
    LET result == call_llm(provider, model, FALSE, api)
        called == Resolved(NewRun(db), result)
        entry == LLMGenerationLog(attempt, client, endpoint, provider, model,
                                  result.input_tokens, result.output_tokens,
                                  Whole(result.cost_usd), Whole(0),
                                  result.ok, result.error)
    IN  Log(Respond(called, IF result.ok THEN 200 ELSE 500,
                    IF result.ok THEN None ELSE "LLM_CALL_FAILED"),
            entry, commit1 /\ commit2)

_call_llm_with_prompt(db, attempt, client, endpoint, provider, model, api, commit1, commit2) ==
    LET result == call_llm(provider, model, FALSE, api)
        called == Resolved(NewRun(db), result)
        total == result.input_tokens + result.output_tokens
        logged == Log(called,
                      LLMGenerationLog(attempt, client, endpoint, provider, model,
                                       result.input_tokens, result.output_tokens,
                                       IF total > 0
                                       THEN Share(result.cost_usd, result.input_tokens, total)
                                       ELSE Whole(0),
                                       IF total > 0
                                       THEN Share(result.cost_usd, result.output_tokens, total)
                                       ELSE Whole(0),
                                       TRUE, None),
                      commit1)
        \* the exception the try block ends with, if any
        e == IF ~result.ok THEN result.error
             ELSE IF LastWriteRaised(logged) THEN "SQLAlchemyError"
             ELSE None
        caught == IF result.ok THEN logged ELSE called
        \* except Exception: log the failed attempt, swallowing a failure of that
        failed == Log(caught,
                      LLMGenerationLog(attempt, client, endpoint, provider, model,
                                       0, 0, Whole(0), Whole(0), FALSE, e),
                      commit2)
    IN  IF e = None
        THEN Respond(logged, 200, None)
        ELSE Respond(failed, 500, "LLM_CALL_FAILED")

(***************************************************************************)
(* routers/content.py                                                      *)
(***************************************************************************)
generate_content_Reissue(db, attempt, client, provider, model, api, commit1, readOk, commit2) ==
    LET endpoint == "/generate-content"
        result == call_llm(provider, model, FALSE, api)
        \* a failed provider call is issued a second time
        called == IF result.ok THEN Resolved(NewRun(db), result)
                  ELSE Resolved(Resolved(NewRun(db), result), result)
        \* the cost split divides by input_tokens + output_tokens
        divides == result.input_tokens + result.output_tokens # 0
        total == result.input_tokens + result.output_tokens
        logged == Log(called,
                      LLMGenerationLog(attempt, client, endpoint, provider, model,
                                       result.input_tokens, result.output_tokens,
                                       Share(result.cost_usd, result.input_tokens, total),
                                       Share(result.cost_usd, result.output_tokens, total),
                                       TRUE, None),
                      commit1)
        checked == [logged EXCEPT !.events = Append(@, "budget_check")]
        e == IF ~result.ok THEN result.error
             ELSE IF ~divides THEN "ZeroDivisionError"
             ELSE IF LastWriteRaised(logged) THEN "SQLAlchemyError"
             ELSE check_budget_alert(clientBudgets[client], readOk)
        caught == IF ~result.ok \/ ~divides THEN called
                  ELSE IF LastWriteRaised(logged) THEN logged
                  ELSE checked
        failed == Log(caught,
                      LLMGenerationLog(attempt, client, endpoint, provider, model,
                                       0, 0, Whole(0), Whole(0), FALSE, e),
                      commit2)
    IN  IF e = None
        THEN Respond(checked, 200, None)
        ELSE Respond(failed, 500, "GENERATION_FAILED")

generate_content(db, attempt, client, provider, model, api, commit1, readOk, commit2) ==
    LET endpoint == "/generate-content"
        result == call_llm(provider, model, FALSE, api)
        called == Resolved(NewRun(db), result)
        \* the cost split divides by input_tokens + output_tokens
        divides == result.input_tokens + result.output_tokens # 0
        total == result.input_tokens + result.output_tokens
        logged == Log(called,
                      LLMGenerationLog(attempt, client, endpoint, provider, model,
                                       result.input_tokens, result.output_tokens,
                                       Share(result.cost_usd, result.input_tokens, total),
                                       Share(result.cost_usd, result.output_tokens, total),
                                       TRUE, None),
                      commit1)
        checked == [logged EXCEPT !.events = Append(@, "budget_check")]
        e == IF ~result.ok THEN result.error
             ELSE IF ~divides THEN "ZeroDivisionError"
             ELSE IF LastWriteRaised(logged) THEN "SQLAlchemyError"
             ELSE check_budget_alert(clientBudgets[client], readOk)
        caught == IF ~result.ok \/ ~divides THEN called
                  ELSE IF LastWriteRaised(logged) THEN logged
                  ELSE checked
        failed == Log(caught,
                      LLMGenerationLog(attempt, client, endpoint, provider, model,
                                       0, 0, Whole(0), Whole(0), FALSE, e),
                      commit2)
    IN  IF e = None
        THEN Respond(checked, 200, None)
        ELSE Respond(failed, 500, "GENERATION_FAILED")

\* the loop of translate_content over request.target_languages: apis[i] and
\* commits[i] are what the provider and the store do for the i-th language
RECURSIVE translate_loop(_, _, _, _, _, _, _, _)
translate_loop(run, attempt, client, provider, model, apis, commits, i) ==
    IF i > Len(apis) THEN Respond(run, 200, None)
    ELSE
      LET result == call_llm(provider, model, FALSE, apis[i])
          called == Resolved(run, result)
          logged == Log(called,
                        LLMGenerationLog(attempt, client, "/translate", provider,
                                         model, result.input_tokens,
                                         result.output_tokens,
                                         \* result["cost_usd"] * 0.5, twice
                                         Share(result.cost_usd, 1, 2),
                                         Share(result.cost_usd, 1, 2),
                                         TRUE, None),
                        commits[i])
      IN  IF ~result.ok THEN Respond(called, 500, "TRANSLATION_FAILED")
          ELSE IF LastWriteRaised(logged)
          THEN Respond(logged, 500, "TRANSLATION_FAILED")
          ELSE translate_loop(logged, attempt, client, provider, model,
                              apis, commits, i + 1)

translate_content(db, attempt, client, provider, model, apis, commits) ==
    translate_loop(NewRun(db), attempt, client, provider, model, apis, commits, 1)

(***************************************************************************)
(* routers/images.py                                                       *)
(***************************************************************************)
\* the price of one DALL-E 3 image, in 10^-9 USD
_calculate_dalle3_cost(size, quality) ==
    CASE size = "1024x1024" /\ quality = "standard" -> 40000000
      [] size = "1024x1792" /\ quality = "standard" -> 80000000
      [] size = "1792x1024" /\ quality = "standard" -> 80000000
      [] size = "1024x1024" /\ quality = "hd" -> 80000000
      [] size = "1024x1792" /\ quality = "hd" -> 120000000
      [] size = "1792x1024" /\ quality = "hd" -> 120000000
      [] OTHER -> 80000000

generate_image(db, attempt, client, size, quality, apiOk, commit1, readOk, commit2) ==
    IF "openai" \notin settingsKeys
    THEN Respond(NewRun(db), 503, "SERVICE_UNAVAILABLE")
    ELSE
      LET endpoint == "/generate-image"
          cost_usd == _calculate_dalle3_cost(size, quality)
          \* openai_client.images.generate(...)
          result == IF apiOk
                    THEN [ok |-> TRUE, input_tokens |-> 0, output_tokens |-> 0,
                          cost_usd |-> cost_usd, error |-> None]
                    ELSE Failed("APIError")
          called == Resolved(NewRun(db), result)
          logged == Log(called,
                        LLMGenerationLog(attempt, client, endpoint, "openai",
                                         "dall-e-3", 0, 0, Whole(cost_usd), Whole(0),
                                         TRUE, None),
                        commit1)
          checked == [logged EXCEPT !.events = Append(@, "budget_check")]
          e == IF ~result.ok THEN result.error
               ELSE IF LastWriteRaised(logged) THEN "SQLAlchemyError"
               ELSE check_budget_alert(clientBudgets[client], readOk)
          caught == IF ~result.ok THEN called
                    ELSE IF LastWriteRaised(logged) THEN logged
                    ELSE checked
          \* input_cost_usd=cost_usd if "BILLING_FAILED" not in str(e) else 0:
          \* no exception raised here carries that text
          failed == Log(caught,
                        LLMGenerationLog(attempt, client, endpoint, "openai",
                                         "dall-e-3", 0, 0, Whole(cost_usd), Whole(0),
                                         FALSE, e),
                        commit2)
      IN  IF e = None
          THEN Respond(checked, 200, None)
          ELSE Respond(failed, 500, "GENERATION_FAILED")

(***************************************************************************)
(* routers/v2: the handlers that select, call, log and answer              *)
(***************************************************************************)
\* try: select; (check the request); call; log; return
\* except ValueError: 400 -- except Exception: log the failure; 500
\*   selection  what the selection function did
\*   precheck   the exception a check between selection and call raises, or None
\*   result     what the provider call did
V2Handler(db, attempt, client, endpoint, selection, precheck, result, failCode, commit1, commit2) ==
    LET begun == NewRun(db)
        start == IF selection.ok /\ precheck # None
                 THEN [begun EXCEPT !.events = Append(@, "precondition_failed")]
                 ELSE begun
        reached == selection.ok /\ precheck = None
        called == IF reached THEN Resolved(start, result) ELSE start
        logged == Log(called,
                      LLMGenerationLog(attempt, client, endpoint,
                                       selection.provider, selection.model,
                                       result.input_tokens, result.output_tokens,
                                       Whole(result.cost_usd), Whole(0),
                                       TRUE, None),
                      commit1)
        e == IF ~selection.ok THEN selection.error
             ELSE IF precheck # None THEN precheck
             ELSE IF ~result.ok THEN result.error
             ELSE IF LastWriteRaised(logged) THEN "SQLAlchemyError"
             ELSE None
        caught == IF reached /\ result.ok THEN logged ELSE called
        \* provider if 'provider' in locals() else "unknown"
        failed == Log(caught,
                      LLMGenerationLog(attempt, client, endpoint,
                                       IF selection.ok THEN selection.provider
                                       ELSE "unknown",
                                       IF selection.ok THEN selection.model
                                       ELSE "unknown",
                                       0, 0, Whole(0), Whole(0), FALSE, e),
                      commit2)
    IN  IF e = None THEN Respond(logged, 200, None)
        ELSE IF e = "ValueError" THEN Respond(caught, 400, "VALIDATION_ERROR")
        ELSE Respond(failed, 500, failCode)

\* routers/v2/audio.py
transcribe_audio(db, attempt, client, request_provider, request_model, api, commit1, commit2) ==
    LET selection == _select_transcription_provider_and_model(request_provider,
                                                              request_model)
    IN  V2Handler(db, attempt, client, "/api/v2/audio/transcribe", selection, None,
                  call_llm(selection.provider, selection.model, TRUE, api),
                  "TRANSCRIPTION_FAILED", commit1, commit2)

\* routers/v2/video.py
generate_video(db, attempt, client, request_provider, request_model, prompt_image, api, commit1, commit2) ==
    LET selection == _select_video_provider_and_model(request_provider,
                                                      request_model)
    IN  V2Handler(db, attempt, client, "/api/v2/video/generate", selection,
                  IF Truthy(prompt_image) THEN None ELSE "HTTPException",
                  call_llm(selection.provider, selection.model, TRUE, api),
                  "VIDEO_GENERATION_FAILED", commit1, commit2)

\* routers/v2/embeddings.py
generate_embeddings(db, attempt, client, request_provider, request_model, api, commit1, commit2) ==
    LET selection == _select_embeddings_provider_and_model(request_provider,
                                                           request_model)
    IN  V2Handler(db, attempt, client, "/api/v2/embeddings/generate", selection,
                  None,
                  embeddings_service_generate_embeddings(selection.provider,
                                                         selection.model, api),
                  "EMBEDDINGS_GENERATION_FAILED", commit1, commit2)

(***************************************************************************)
(* providers/: the provider classes and their configuration                *)
(***************************************************************************)
\* AnthropicProvider, DeepgramProvider and OllamaProvider are classes of
\* providers/; StubClaudeProvider stands for a subclass of AnthropicProvider
\* that a caller registers to override it (it inherits every method).
ProviderClasses ==
    {"AnthropicProvider", "DeepgramProvider", "OllamaProvider", "StubClaudeProvider"}

\* the provider_name property of an instance of the class
provider_name(class) ==
    CASE class = "AnthropicProvider" -> "claude"
      [] class = "StubClaudeProvider" -> "claude"
      [] class = "DeepgramProvider" -> "deepgram"
      [] class = "OllamaProvider" -> "ollama"

\* ProviderConfig: the fields is_available reads
ApiKeys == {None, "", "sk-1"}
BaseUrls == {None, "http://localhost:11434"}
ProviderConfigs == [api_key : ApiKeys, base_url : BaseUrls]

\* len() of an api key
KeyLen(api_key) == IF api_key = "" THEN 0 ELSE 4

\* get_metadata().requires_api_key and .requires_base_url of the class
requires_api_key(class) == class # "OllamaProvider"
requires_base_url(class) == class = "OllamaProvider"

\* is_available() of an instance of the class built from config; raised is the
\* exception the call ends with, if any
is_available_NoNoneCheck(class, config) ==
    IF class = "OllamaProvider"
    THEN [value |-> Truthy(config.base_url), raised |-> None]
    ELSE IF config.api_key = None
    THEN [value |-> FALSE, raised |-> "TypeError"]
    ELSE [value |-> KeyLen(config.api_key) > 0, raised |-> None]

is_available(class, config) ==
    CASE class \in {"AnthropicProvider", "StubClaudeProvider"} ->
            [value |-> Truthy(config.api_key), raised |-> None]
      [] class = "DeepgramProvider" ->
            [value |-> config.api_key # None /\ KeyLen(config.api_key) > 0,
             raised |-> None]
      [] class = "OllamaProvider" ->
            [value |-> Truthy(config.base_url), raised |-> None]

(***************************************************************************)
(* providers/__init__.py: ProviderRegistry                                 *)
(***************************************************************************)
\* A Python dict, as the set of its <<key, value>> items
Keys(d) == {it[1] : it \in d}
Get(d, key) ==
    IF key \in Keys(d) THEN (CHOOSE it \in d : it[1] = key)[2] ELSE None

\* d[key] = value
SetItem(d, key, value) == {it \in d : it[1] # key} \cup {<<key, value>>}

\* "no instance" and "no config", shaped like an instance and a config
NoneConfig == [api_key |-> None, base_url |-> None]
NoneInstance == [class |-> None, config |-> NoneConfig]

\* dict.get(key) on the instances dict
GetInstance(d, key) ==
    IF key \in Keys(d) THEN (CHOOSE it \in d : it[1] = key)[2] ELSE NoneInstance

\* the record of a registry call: its arguments, the entry the name had before
\* it, whether an instance was constructed and whether it was available, the
\* value returned and the exception raised
RegistryCall(op, name, class, config) ==
    [op |-> op, name |-> name, class |-> class, config |-> config,
     beforeClass |-> Get(providers, name),
     beforeInstance |-> GetInstance(instances, name),
     constructed |-> FALSE, available |-> FALSE,
     returned |-> NoneInstance, raised |-> None]

\* a variant in which the first registration of a name wins
register_KeepFirst(class) ==
    /\ providers' = IF provider_name(class) \in Keys(providers) THEN providers
                    ELSE SetItem(providers, provider_name(class), class)
    /\ lastOp' = RegistryCall("register", provider_name(class), class, NoneConfig)
    /\ UNCHANGED instances

\* ProviderRegistry.register(provider_class)
register(class) ==
    /\ providers' = SetItem(providers, provider_name(class), class)
    /\ lastOp' = RegistryCall("register", provider_name(class), class, NoneConfig)
    /\ UNCHANGED instances

\* a variant that constructs and stores an instance without looking the name
\* up in the registered classes
initialize_provider_Unchecked(name, config) ==
    LET class == IF name \in Keys(providers) THEN Get(providers, name)
                 ELSE "AnthropicProvider"
        instance == [class |-> class, config |-> config]
        avail == is_available(class, config)
        op == RegistryCall("initialize", name, class, config)
    IN  /\ UNCHANGED providers
        /\ IF avail.raised # None
           THEN /\ instances' = instances
                /\ lastOp' = [op EXCEPT !.constructed = TRUE, !.raised = avail.raised]
           ELSE IF avail.value
           THEN /\ instances' = SetItem(instances, name, instance)
                /\ lastOp' = [op EXCEPT !.constructed = TRUE, !.available = TRUE,
                                        !.returned = instance]
           ELSE /\ instances' = instances
                /\ lastOp' = [op EXCEPT !.constructed = TRUE]

\* ProviderRegistry.initialize_provider(provider_name, config)
initialize_provider(name, config) ==
    LET class == Get(providers, name)
        instance == [class |-> class, config |-> config]
        avail == is_available(class, config)
        op == RegistryCall("initialize", name, class, config)
    IN  /\ UNCHANGED providers
        /\ IF name \notin Keys(providers)
           THEN /\ instances' = instances
                /\ lastOp' = op
           ELSE IF avail.raised # None
           THEN /\ instances' = instances
                /\ lastOp' = [op EXCEPT !.constructed = TRUE, !.raised = avail.raised]
           ELSE IF avail.value
           THEN /\ instances' = SetItem(instances, name, instance)
                /\ lastOp' = [op EXCEPT !.constructed = TRUE, !.available = TRUE,
                                        !.returned = instance]
           ELSE /\ instances' = instances
                /\ lastOp' = [op EXCEPT !.constructed = TRUE]

\* ProviderRegistry.get_provider, get_available_providers, list_all_providers
get_provider(name) == GetInstance(instances, name)
get_available_providers == Keys(instances)
list_all_providers == Keys(providers)

(***************************************************************************)
(* Requests                                                                *)
(***************************************************************************)
\* what the v2 handlers of Spec are asked for
HandlerProviders == {None, "openai"}
HandlerModels == {None}
\* ContentGenerationRequest / TranslationRequest: provider is an LLMProvider
ContentProviders == {"claude", "openai"}
ContentModels == {"gpt-4-turbo"}
ImageSizes == {"1024x1024", "1792x1024"}
ImageQualities == {"standard", "hd"}

\* what the selection functions of SpecDispatch are asked for
SelectProviders == {None, "", "openai", "cohere", "sora"}
SelectModels == {None, "", "gpt-4-turbo", "Claude-3-Opus", "text-embedding-3-small",
                 "embed-english-v3.0", "nova-3", "my-model"}
TaskTypes == {"general", "fast", "quality", "translation", "analysis"}

\* sequences of length 0..n over S
SeqsUpTo(S, n) == UNION {[1..k -> S] : k \in 0..n}

RECURSIVE SumOver(_, _)
SumOver(f, S) ==
    IF S = {} THEN 0
    ELSE LET x == CHOOSE x \in S : TRUE IN f[x] + SumOver(f, S \ {x})

\* requests handled so far
Handled == SumOver(attempts, Clients)

(***************************************************************************)
(* Initial state                                                           *)
(***************************************************************************)
NoRequest ==
    [attempt |-> 0, client |-> None, endpoint |-> None, events |-> <<>>,
     writes |-> <<>>, calls |-> 0, callOk |-> FALSE, results |-> <<>>,
     status |-> 0, code |-> None]

NoCalc == [fn |-> None, args |-> <<>>, value |-> 0, raised |-> None]

NoTask ==
    [provider |-> None, phase |-> "idle", clock |-> 0, started |-> 0,
     polls |-> 0, status |-> None, outcome |-> None]

\* APIClient.monthly_budget_usd is nullable.  The clients as they are configured
\* at the start: c1 with a monthly budget of 100 USD, c2 with none
ClientBudgets == [c \in Clients |-> IF c = "c1" THEN 10000 ELSE 0]

NoSelection ==
    [category |-> None, request_provider |-> None, request_model |-> None,
     task_type |-> None, result |-> Raise(None)]

Init ==
    /\ settingsKeys \in SUBSET KeyNames
    /\ ledger = <<>>
    /\ attempts = [c \in Clients |-> 0]
    /\ last = NoRequest
    /\ providers = {}
    /\ instances = {}
    /\ lastOp = [op |-> None, name |-> None, class |-> None, config |-> NoneConfig,
                 beforeClass |-> None, beforeInstance |-> NoneInstance,
                 constructed |-> FALSE, available |-> FALSE,
                 returned |-> NoneInstance, raised |-> None]
    /\ sel = NoSelection
    /\ calc = NoCalc
    /\ task = NoTask
    /\ clientBudgets = ClientBudgets

(***************************************************************************)
(* Spec: requests                                                          *)
(***************************************************************************)
\* a request of client to endpoint has been handled as run says
Handle(client, endpoint, run) ==
    /\ ledger' = run.db
    /\ attempts' = [attempts EXCEPT ![client] = @ + 1]
    /\ last' = [attempt |-> Handled + 1, client |-> client, endpoint |-> endpoint,
                events |-> run.events, writes |-> run.writes, calls |-> run.calls,
                callOk |-> run.callOk, results |-> run.results,
                status |-> run.status, code |-> run.code]
    /\ UNCHANGED <<settingsKeys, providers, instances, lastOp, sel, calc, task,
                   clientBudgets>>

\* POST /api/v2/text/generate
GenerateText ==
    /\ Handled < MaxAttempts
    /\ \E client \in Clients, rp \in HandlerProviders, rm \in HandlerModels,
          api \in ApiOutcomes, commit1 \in BOOLEAN, commit2 \in BOOLEAN :
          LET selection == _select_provider_and_model(rp, rm, "general")
          IN  Handle(client, "/api/v2/text/generate",
                     _call_llm_with_prompt(ledger, Handled + 1, client,
                                           "/api/v2/text/generate",
                                           selection.provider, selection.model,
                                           api, commit1, commit2))

\* POST /generate-content
GenerateContent ==
    /\ Handled < MaxAttempts
    /\ \E client \in Clients, provider \in ContentProviders, model \in ContentModels,
          api \in ApiOutcomes, commit1 \in BOOLEAN, readOk \in BOOLEAN,
          commit2 \in BOOLEAN :
          Handle(client, "/generate-content",
                 generate_content(ledger, Handled + 1, client, provider, model,
                                  api, commit1, readOk, commit2))

\* POST /translate
TranslateContent ==
    /\ Handled < MaxAttempts
    /\ \E client \in Clients, provider \in ContentProviders, model \in ContentModels,
          n \in 0..MaxLangs :
          \E apis \in [1..n -> ApiOutcomes], commits \in [1..n -> BOOLEAN] :
              Handle(client, "/translate",
                     translate_content(ledger, Handled + 1, client, provider,
                                       model, apis, commits))

\* POST /api/v2/audio/transcribe
TranscribeAudio ==
    /\ Handled < MaxAttempts
    /\ \E client \in Clients, rp \in HandlerProviders, rm \in HandlerModels,
          api \in ApiOutcomes, commit1 \in BOOLEAN, commit2 \in BOOLEAN :
          Handle(client, "/api/v2/audio/transcribe",
                 transcribe_audio(ledger, Handled + 1, client, rp, rm, api,
                                  commit1, commit2))

\* POST /api/v2/video/generate
GenerateVideo ==
    /\ Handled < MaxAttempts
    /\ \E client \in Clients, rp \in HandlerProviders, rm \in HandlerModels,
          prompt_image \in {None, "https://example.com/bunny.jpg"},
          api \in ApiOutcomes, commit1 \in BOOLEAN, commit2 \in BOOLEAN :
          Handle(client, "/api/v2/video/generate",
                 generate_video(ledger, Handled + 1, client, rp, rm, prompt_image,
                                api, commit1, commit2))

\* POST /api/v2/embeddings/generate
GenerateEmbeddings ==
    /\ Handled < MaxAttempts
    /\ \E client \in Clients, rp \in HandlerProviders, rm \in HandlerModels,
          api \in ApiOutcomes, commit1 \in BOOLEAN, commit2 \in BOOLEAN :
          Handle(client, "/api/v2/embeddings/generate",
                 generate_embeddings(ledger, Handled + 1, client, rp, rm, api,
                                     commit1, commit2))

\* POST /generate-image
GenerateImage ==
    /\ Handled < MaxAttempts
    /\ \E client \in Clients, size \in ImageSizes, quality \in ImageQualities,
          apiOk \in BOOLEAN, commit1 \in BOOLEAN, readOk \in BOOLEAN,
          commit2 \in BOOLEAN :
          Handle(client, "/generate-image",
                 generate_image(ledger, Handled + 1, client, size, quality, apiOk,
                                commit1, readOk, commit2))

Next ==
    \/ GenerateText
    \/ GenerateImage
    \/ GenerateContent
    \/ TranslateContent
    \/ TranscribeAudio
    \/ GenerateVideo
    \/ GenerateEmbeddings

Spec == Init /\ [][Next]_vars

(***************************************************************************)
(* SpecRegistry: calls of the ProviderRegistry                             *)
(***************************************************************************)
ProviderNames == {provider_name(c) : c \in ProviderClasses} \cup {"sora"}

Register ==
    /\ \E class \in ProviderClasses : register(class)
    /\ UNCHANGED <<settingsKeys, ledger, attempts, last, sel, calc, task, clientBudgets>>

InitializeProvider ==
    /\ \E name \in ProviderNames, config \in ProviderConfigs :
          initialize_provider(name, config)
    /\ UNCHANGED <<settingsKeys, ledger, attempts, last, sel, calc, task, clientBudgets>>

NextRegistry == Register \/ InitializeProvider

InitRegistry == Init /\ settingsKeys = {}

SpecRegistry == InitRegistry /\ [][NextRegistry]_vars

(***************************************************************************)
(* SpecDispatch: calls of the selection functions                          *)
(***************************************************************************)
Selected(category, rp, rm, task_type, result) ==
    /\ sel' = [category |-> category, request_provider |-> rp,
               request_model |-> rm, task_type |-> task_type, result |-> result]
    /\ UNCHANGED <<settingsKeys, ledger, attempts, last, providers, instances, lastOp,
                   calc, task, clientBudgets>>

SelectText ==
    \E rp \in SelectProviders, rm \in SelectModels, task_type \in TaskTypes :
        Selected("text", rp, rm, task_type,
                 _select_provider_and_model(rp, rm, task_type))

SelectTranscription ==
    \E rp \in SelectProviders, rm \in SelectModels :
        Selected("transcription", rp, rm, None,
                 _select_transcription_provider_and_model(rp, rm))

SelectVideo ==
    \E rp \in SelectProviders, rm \in SelectModels :
        Selected("video", rp, rm, None, _select_video_provider_and_model(rp, rm))

SelectEmbeddings ==
    \E rp \in SelectProviders, rm \in SelectModels :
        Selected("embeddings", rp, rm, None,
                 _select_embeddings_provider_and_model(rp, rm))

NextDispatch == SelectText \/ SelectTranscription \/ SelectVideo \/ SelectEmbeddings

SpecDispatch == Init /\ [][NextDispatch]_vars

(***************************************************************************)
(* providers/deepgram_provider.py                                          *)
(***************************************************************************)
\* cost_per_minute_map.get(model, 0.0043), in 10^-9 USD per minute
deepgram_cost_per_minute(model) ==
    CASE model = "nova-3" -> 4300000
      [] model = "nova-3-multilingual" -> 4300000
      [] model = "nova-3-medical" -> 4300000
      [] model = "nova-2" -> 4300000
      [] model = "whisper-large" -> 4800000
      [] model = "nova-3-streaming" -> 5900000
      [] OTHER -> 4300000

\* the audio is billed by the started minute
_calculate_cost_WholeMinutes(audio_duration_seconds, model) ==
    Round6(((audio_duration_seconds + 59) \div 60) * deepgram_cost_per_minute(model))

\* DeepgramProvider._calculate_cost: round(seconds * (cost_per_minute / 60), 6)
_calculate_cost(audio_duration_seconds, model) ==
    RoundFrac6(Frac(audio_duration_seconds * deepgram_cost_per_minute(model), 60))

\* DeepgramProvider._transcribe: what the LLMResponse reports for an audio of
\* audio_duration seconds; pseudo_tokens = int(audio_duration * 100)
deepgram_transcribe(model, audio_duration) ==
    [input_tokens |-> audio_duration * 100, output_tokens |-> 0,
     cost_usd |-> _calculate_cost(audio_duration, model)]

\* DeepgramProvider does not override calculate_cost: BaseProvider.calculate_cost
\* with the provider's pricing, which is empty unless a pricing is configured
deepgram_calculate_cost(model, input_tokens, output_tokens) ==
    calculate_cost(<<>>, model, input_tokens, output_tokens).value

(***************************************************************************)
(* providers/elevenlabs_provider.py                                        *)
(***************************************************************************)
\* MODEL_COSTS_PER_CHAR.get(model, 0.00016), in 10^-9 USD per character
MODEL_COSTS_PER_CHAR(model) ==
    CASE model \in {"eleven_flash_v2_5", "eleven_flash_v2"} -> 80000
      [] OTHER -> 160000

\* ElevenLabsProvider._calculate_audio_cost
_calculate_audio_cost(model, char_count) ==
    Round6(MODEL_COSTS_PER_CHAR(model) * char_count)

\* ElevenLabsProvider.call: what the LLMResponse reports for a text of
\* char_count characters
elevenlabs_call(model, char_count) ==
    [input_tokens |-> char_count * 100, output_tokens |-> 0,
     cost_usd |-> _calculate_audio_cost(model, char_count)]

\* ElevenLabsProvider.calculate_cost
elevenlabs_calculate_cost(model, input_tokens, output_tokens) ==
    _calculate_audio_cost(model, input_tokens \div 100)

(***************************************************************************)
(* providers/runway_provider.py                                            *)
(***************************************************************************)
\* MODEL_CREDITS.get(model, 5): credits per second
MODEL_CREDITS(model) ==
    CASE model = "gen4_turbo" -> 5
      [] model = "gen4_aleph" -> 15
      [] model = "gen3_turbo" -> 5
      [] model = "gen3_alpha" -> 10
      [] OTHER -> 5

\* 0.01 USD per credit, in 10^-9 USD
CREDIT_COST_USD == 10000000

\* round(x, 4): to the nearest multiple of 10^-4 USD, a tie to the even one
Round4(n) ==
    LET q == n \div 100000
        r == n % 100000
    IN  IF r < 50000 THEN q * 100000
        ELSE IF r > 50000 THEN (q + 1) * 100000
        ELSE IF q % 2 = 0 THEN q * 100000 ELSE (q + 1) * 100000

\* RunwayProvider._calculate_video_cost
_calculate_video_cost(model, duration) ==
    Round4(MODEL_CREDITS(model) * duration * CREDIT_COST_USD)

\* the duration RunwayProvider.call works with: 5 or 10 as requested, else the
\* nearer of the two
runway_duration(duration) ==
    IF duration \notin {5, 10} THEN (IF duration <= 7 THEN 5 ELSE 10) ELSE duration

\* the cost is computed from the duration the caller asked for
runway_call_BillsRequested(model, duration) ==
    [input_tokens |-> runway_duration(duration) * 100, output_tokens |-> 0,
     cost_usd |-> _calculate_video_cost(model, duration),
     duration |-> runway_duration(duration)]

\* RunwayProvider.call (image-to-video) once the task has succeeded: the
\* duration sent to image_to_video.create and what the LLMResponse reports
runway_call(model, duration) ==
    [input_tokens |-> runway_duration(duration) * 100, output_tokens |-> 0,
     cost_usd |-> _calculate_video_cost(model, runway_duration(duration)),
     duration |-> runway_duration(duration)]

\* RunwayProvider.calculate_cost
runway_calculate_cost(model, input_tokens, output_tokens) ==
    _calculate_video_cost(model, input_tokens \div 100)

(***************************************************************************)
(* SpecCost: calls of the cost functions                                   *)
(***************************************************************************)
\* the pricing tables a provider is configured with: up to two items with
\* distinct keys, in either order
PricingItems ==
    { [key |-> "sonnet", input |-> 3000, output |-> 15000],
      [key |-> "opus", input |-> 15000, output |-> 75000],
      [key |-> "claude", input |-> 8000, output |-> 24000] }
PricingTables ==
    {<<>>} \cup {<<a>> : a \in PricingItems}
           \cup {<<a, b>> : <<a, b>> \in {ab \in PricingItems \X PricingItems : ab[1] # ab[2]}}
EmbeddingsPricingTables ==
    { <<>>,
      << [key |-> "text-embedding-3-small", rate |-> 20] >>,
      << [key |-> "embed", rate |-> 100], [key |-> "text-embedding-3-small", rate |-> 20] >> }
CostModels ==
    {"claude-3-5-sonnet-20241022", "Claude-3-Opus", "gpt-4-turbo", "my-model", "sonnet"}
EmbeddingsModels == {"text-embedding-3-small", "embed-english-v3.0", "my-model"}
CostProviders == {"claude", "openai", "groq", "cohere"}
CostTokens == {0, 1, 1000}

\* fn was called with args and returned or raised as result says
Computed(fn, args, result) ==
    /\ calc' = [fn |-> fn, args |-> args, value |-> result.value,
                raised |-> result.raised]
    /\ UNCHANGED <<settingsKeys, ledger, attempts, last, providers, instances, lastOp,
                   sel, task, clientBudgets>>

CalculateCost ==
    \E pricing \in PricingTables, model \in CostModels,
       input_tokens \in CostTokens, output_tokens \in CostTokens :
        Computed("calculate_cost",
                 [model |-> model, input_tokens |-> input_tokens,
                  output_tokens |-> output_tokens, pricing |-> pricing],
                 calculate_cost(pricing, model, input_tokens, output_tokens))

EmbeddingsCalculateCost ==
    \E pricing \in EmbeddingsPricingTables, model \in EmbeddingsModels,
       total_tokens \in CostTokens :
        Computed("embeddings_calculate_cost",
                 [model |-> model, pricing |-> pricing, total_tokens |-> total_tokens],
                 embeddings_calculate_cost(pricing, model, total_tokens))

GetCostPer1kTokens ==
    \E provider \in CostProviders, model \in CostModels, token_type \in {"input", "output"} :
        Computed("get_cost_per_1k_tokens",
                 [provider |-> provider, model |-> model, token_type |-> token_type],
                 Returns(get_cost_per_1k_tokens(provider, model, token_type)))

\* budgets and month-to-date costs in cents; a client without a row in the
\* month's view has spent nothing
Budgets == {0, 10000}
MonthCosts == {0, 7999, 8000, 8999, 9000, 9999, 10000, 10001}

CheckBudgetAlert ==
    \E budget \in Budgets, cost \in MonthCosts, has_row \in BOOLEAN :
        /\ ~has_row => cost = 0
        /\ Computed("check_budget_alert",
                    [monthly_budget_usd |-> budget, has_row |-> has_row,
                     current_cost |-> cost],
                    Returns(check_budget_alert_level(budget, has_row, cost)))

GetCurrentMonthUsage ==
    \E budget \in Budgets, cost \in MonthCosts, has_row \in BOOLEAN :
        /\ ~has_row => cost = 0
        /\ Computed("get_current_month_usage",
                    [monthly_budget_usd |-> budget, has_row |-> has_row,
                     current_cost |-> cost],
                    Returns(get_current_month_usage(budget, has_row, cost)))

\* audio durations in whole seconds
AudioDurations == {0, 1, 59, 60, 61, 125, 180}
DeepgramModels == {"nova-3", "whisper-large", "nova-3-streaming", "my-model"}

DeepgramCalculateCost ==
    \E audio_duration_seconds \in AudioDurations, model \in DeepgramModels :
        Computed("_calculate_cost",
                 [model |-> model, audio_duration_seconds |-> audio_duration_seconds],
                 Returns(_calculate_cost(audio_duration_seconds, model)))

\* lengths of the text of a speech request
CharCounts == {0, 1, 7, 1000}
ElevenLabsModels == {"eleven_flash_v2_5", "eleven_multilingual_v2", "my-model"}
\* durations a video request asks for, in seconds
RequestedDurations == {0, 3, 5, 7, 8, 10, 12}
RunwayModels == {"gen4_turbo", "gen4_aleph", "my-model"}

\* an adapter call followed by calculate_cost on the units it reported:
\* request is what was asked for, response what the call reported, and the
\* result what calculate_cost gives for the reported units
Estimated(fn, model, request, response, value) ==
    Computed(fn, [model |-> model, request |-> request, response |-> response],
             Returns(value))

DeepgramEstimate ==
    \E audio_duration \in AudioDurations, model \in DeepgramModels :
        Estimated("deepgram.calculate_cost", model, audio_duration,
                  deepgram_transcribe(model, audio_duration),
                  deepgram_calculate_cost(model,
                      deepgram_transcribe(model, audio_duration).input_tokens,
                      deepgram_transcribe(model, audio_duration).output_tokens))

ElevenLabsEstimate ==
    \E char_count \in CharCounts, model \in ElevenLabsModels :
        Estimated("elevenlabs.calculate_cost", model, char_count,
                  elevenlabs_call(model, char_count),
                  elevenlabs_calculate_cost(model,
                      elevenlabs_call(model, char_count).input_tokens,
                      elevenlabs_call(model, char_count).output_tokens))

RunwayEstimate ==
    \E duration \in RequestedDurations, model \in RunwayModels :
        Estimated("runway.calculate_cost", model, duration,
                  runway_call(model, duration),
                  runway_calculate_cost(model,
                      runway_call(model, duration).input_tokens,
                      runway_call(model, duration).output_tokens))

NextCost ==
    \/ CalculateCost
    \/ EmbeddingsCalculateCost
    \/ GetCostPer1kTokens
    \/ CheckBudgetAlert
    \/ GetCurrentMonthUsage
    \/ DeepgramCalculateCost
    \/ DeepgramEstimate
    \/ ElevenLabsEstimate
    \/ RunwayEstimate

SpecCost == InitRegistry /\ [][NextCost]_vars

(***************************************************************************)
(* SpecBilling: direct calls of the BillingService and of the client       *)
(* administration                                                          *)
(***************************************************************************)
\* costs of one row, in 10^-9 USD
RowCosts == {0, 40000000}

\* BillingService.log_generation called with a row of client
BillingLogGeneration ==
    /\ Len(ledger) < MaxRecords
    /\ \E client \in Clients, success \in BOOLEAN, cost \in RowCosts, commitOk \in BOOLEAN :
          /\ ledger' = log_generation(ledger,
                                      LLMGenerationLog(Len(ledger) + 1, client,
                                                       "/generate-content", "claude",
                                                       "my-model", 0, 0, Whole(cost),
                                                       Whole(0), success,
                                                       IF success THEN None
                                                       ELSE "APIError"),
                                      commitOk).db
          /\ calc' = [raised |-> IF commitOk THEN None ELSE "SQLAlchemyError",
                      value |-> 0, fn |-> "log_generation",
                      args |-> <<client, success, cost>>]
    /\ UNCHANGED <<settingsKeys, attempts, last, providers, instances, lastOp, sel,
                   task, clientBudgets>>

\* an administrator sets or clears the monthly budget of client
SetBudget ==
    /\ \E client \in Clients, budget \in Budgets :
          /\ clientBudgets' = [clientBudgets EXCEPT ![client] = budget]
          /\ calc' = [raised |-> None, value |-> 0, fn |-> "set_budget",
                      args |-> <<client, budget>>]
    /\ UNCHANGED <<settingsKeys, ledger, attempts, last, providers, instances, lastOp,
                   sel, task>>

\* BillingService.check_budget_alert called for client; has_row and cost are
\* what v_current_month_costs holds for the client.  Every call of this
\* specification leaves its name in calc.fn.
BillingCheckBudgetAlert ==
    /\ \E client \in Clients, has_row \in BOOLEAN, cost \in MonthCosts :
          /\ ~has_row => cost = 0
          /\ LET r == check_budget_alert_call(ledger, clientBudgets[client], has_row, cost)
             IN  /\ ledger' = r.db
                 /\ clientBudgets' = [clientBudgets EXCEPT ![client] = r.monthly_budget_usd]
                 /\ calc' = [raised |-> None, value |-> r.alert,
                             fn |-> "check_budget_alert",
                             args |-> <<client, has_row, cost>>]
    /\ UNCHANGED <<settingsKeys, attempts, last, providers, instances, lastOp, sel, task>>

NextBilling == BillingLogGeneration \/ SetBudget \/ BillingCheckBudgetAlert

SpecBilling == InitRegistry /\ [][NextBilling]_vars

(***************************************************************************)
(* SpecAdapter: one adapter call at a time, as a process.  The clock is in *)
(* seconds since the call began.  The adapter's own steps are taken        *)
(* eventually (the event loop runs them) and time passes; the external     *)
(* service answers when it does, if ever.                                  *)
(***************************************************************************)
\* _poll_task_completion(client, task_id, max_wait_seconds=300, poll_interval=2.0)
max_wait_seconds == 300
poll_interval == 2
\* ProviderConfig.timeout
timeout == 60

InProgress == task.phase \in {"polling", "waiting"}

\* the task ends: the call returns ("ok") or raises outcome
Done(outcome) == [task EXCEPT !.phase = "done", !.outcome = outcome]

\* RunwayProvider.call with a prompt_image: image_to_video.create returns a
\* task, start_time = time.time(), then the polling loop begins
RunwayCreate ==
    /\ task.phase \in {"idle", "done"}
    /\ task' = [provider |-> "runway", phase |-> "polling", clock |-> 0,
                started |-> 0, polls |-> 0, status |-> "PENDING", outcome |-> None]

\* the Runway service moves the task on
RunwayService ==
    /\ task.provider = "runway" /\ task.phase = "polling"
    /\ \/ task.status = "PENDING"
          /\ task' \in {[task EXCEPT !.status = st] : st \in {"RUNNING", "THROTTLED"}}
       \/ task.status = "RUNNING"
          /\ task' \in {[task EXCEPT !.status = st] : st \in {"SUCCEEDED", "FAILED"}}

\* the loop with a final branch that returns the task for any status it does
\* not know, instead of raising
RunwayPoll_ReturnsUnknown ==
    /\ task.provider = "runway" /\ task.phase = "polling"
    /\ task' =
         IF task.clock - task.started > max_wait_seconds THEN Done("TimeoutError")
         ELSE IF task.status = "SUCCEEDED" THEN Done("ok")
         ELSE IF task.status = "FAILED" THEN Done("Exception")
         ELSE IF task.status \in {"PENDING", "RUNNING"}
         THEN [task EXCEPT !.clock = @ + poll_interval, !.polls = @ + 1]
         ELSE Done("ok")

\* one iteration of the while True loop of _poll_task_completion
RunwayPoll ==
    /\ task.provider = "runway" /\ task.phase = "polling"
    /\ task' =
         IF task.clock - task.started > max_wait_seconds THEN Done("TimeoutError")
         ELSE IF task.status = "SUCCEEDED" THEN Done("ok")
         ELSE IF task.status = "FAILED" THEN Done("Exception")
         ELSE IF task.status \in {"PENDING", "RUNNING"}
         THEN \* await asyncio.sleep(poll_interval); continue
              [task EXCEPT !.clock = @ + poll_interval, !.polls = @ + 1]
         ELSE Done("Exception")

\* PikaProvider.call with a prompt_image and a known model: fal_client.submit,
\* then handler.get(), which returns when the service has a result
PikaSubmit ==
    /\ task.phase \in {"idle", "done"}
    /\ task' = [provider |-> "pika", phase |-> "waiting", clock |-> 0,
                started |-> 0, polls |-> 0, status |-> "IN_QUEUE", outcome |-> None]

\* the Fal.ai service delivers a result or an error to handler.get()
PikaResult ==
    /\ task.provider = "pika" /\ task.phase = "waiting"
    /\ task' \in {Done("ok"), Done("Exception")}

\* another timeout period passes while handler.get() blocks
Tick ==
    /\ task.phase = "waiting"
    /\ task.clock - task.started < MaxPeriods * timeout
    /\ task' = [task EXCEPT !.clock = @ + timeout]

AdapterStep(A) ==
    /\ A
    /\ UNCHANGED <<settingsKeys, ledger, attempts, last, providers, instances, lastOp,
                   sel, calc, clientBudgets>>

NextAdapter ==
    \/ AdapterStep(RunwayCreate)
    \/ AdapterStep(RunwayService)
    \/ AdapterStep(RunwayPoll)
    \/ AdapterStep(PikaSubmit)
    \/ AdapterStep(PikaResult)
    \/ AdapterStep(Tick)

SpecAdapter ==
    /\ InitRegistry
    /\ [][NextAdapter]_vars
    /\ WF_vars(AdapterStep(RunwayPoll))
    /\ WF_vars(AdapterStep(Tick))

(***************************************************************************)
(* Properties of the usage ledger (Spec)                                   *)
(***************************************************************************)
RecordsOf(client) == {i \in DOMAIN ledger : ledger[i].client_id = client}
RecordsOfAttempt(n) == {i \in DOMAIN ledger : ledger[i].attempt = n}
Answered == last.status # 0
FailureReported == Answered /\ last.status # 200
Positions(event) == {i \in DOMAIN last.events : last.events[i] = event}

\* C1: after N requests of a client the ledger holds exactly N records of that
\* client: every request wrote exactly one record, never none and never two.
C1_OneRecordPerAttempt ==
    \A c \in Clients : Cardinality(RecordsOf(c)) = attempts[c]

\* C2: every request that ends in a failure reported to the caller has a
\* record in the ledger with success = false and an error classification.
C2_FailedAttemptRecorded ==
    FailureReported =>
        \E i \in RecordsOfAttempt(last.attempt) :
            /\ ledger[i].success = FALSE
            /\ ledger[i].error_type # None

\* C3: when the provider call succeeded and the ledger write that records the
\* success failed, the caller still gets the successful result.
C3_BillingFailureKeepsSuccess ==
    (\E i \in DOMAIN last.writes :
        last.writes[i].success /\ ~last.writes[i].stored)
    => last.status = 200

\* C4: within one request every ledger write comes after the provider call has
\* resolved (a record of a success directly after the resolution it records)
\* and before the response goes to the caller, which is the last step.
C4_LedgerWriteOrder ==
    Answered =>
        /\ Positions("response") = {Len(last.events)}
        /\ \A i \in Positions("ledger_write") :
              /\ i < Len(last.events)
              /\ Positions("provider_resolved") # {}
                    => \E k \in Positions("provider_resolved") : k < i
        /\ \A w \in DOMAIN last.writes :
              last.writes[w].success
                 => /\ last.writes[w].at > 1
                    /\ last.events[last.writes[w].at - 1] = "provider_resolved"

\* a request whose provider call succeeded, whose record was stored and which
\* was answered with the result
C4_Witness ==
    /\ last.status = 200
    /\ last.calls > 0
    /\ \E w \in DOMAIN last.writes : last.writes[w].stored

\* C5: a failure of the ledger write is logged and discarded: log_generation
\* never raises a storage failure to the code that called it.
C5_LedgerFailureNotRaised ==
    \A w \in DOMAIN last.writes :
        ~last.writes[w].stored => ~last.writes[w].raised

(***************************************************************************)
(* Properties of the registry (SpecRegistry)                               *)
(***************************************************************************)
\* the config lacks a credential the class declares as required
LacksCredential(class, config) ==
    \/ requires_api_key(class) /\ ~Truthy(config.api_key)
    \/ requires_base_url(class) /\ ~Truthy(config.base_url)

\* C6: initialize_provider with a config that lacks the provider's required
\* credential returns None (no usable adapter) and does not raise.
C6_MissingCredentialReturnsNone ==
    (/\ lastOp.op = "initialize"
     /\ lastOp.class # None
     /\ LacksCredential(lastOp.class, lastOp.config))
    => /\ lastOp.returned = NoneInstance
       /\ lastOp.raised = None

\* a registered provider was configured without its credential
C6_Witness ==
    /\ lastOp.op = "initialize"
    /\ lastOp.class \in {"DeepgramProvider", "OllamaProvider"}
    /\ LacksCredential(lastOp.class, lastOp.config)
    /\ lastOp.returned = NoneInstance

\* C7: whenever initialize_provider returns None because the instance it built
\* is not available, the name is absent from the available set afterwards
\* (get_available_providers excludes it, get_provider returns None), whatever
\* the registry held before.
C7_UnavailableLeavesAbsent ==
    (/\ lastOp.op = "initialize"
     /\ lastOp.constructed
     /\ ~lastOp.available
     /\ lastOp.returned = NoneInstance)
    => /\ lastOp.name \notin get_available_providers
       /\ get_provider(lastOp.name) = NoneInstance

\* C8: registering a class under a name that is already registered leaves
\* exactly one entry for the name, the class registered last.
C8_RegisterOverwrites ==
    /\ lastOp.op = "register"
          => {it \in providers : it[1] = lastOp.name}
                = {<<lastOp.name, lastOp.class>>}
    /\ \A name \in list_all_providers :
          Cardinality({it \in providers : it[1] = name}) = 1

\* a name registered to one class has been registered again with another
C8_Witness ==
    /\ lastOp.op = "register"
    /\ lastOp.beforeClass \notin {None, lastOp.class}

(***************************************************************************)
(* Properties of the selection (SpecDispatch)                              *)
(***************************************************************************)
\* the priority list of a category, as (provider, model) pairs in the order
\* the selection tries them
PriorityList(category, task_type) ==
    CASE category = "text" -> <<DictGet(task_routing, task_type, task_routing["general"])>>
      [] category = "transcription" ->
            << <<"deepgram", "nova-3">>, <<"assemblyai", "best">>,
               <<"openai", "whisper-1">> >>
      [] category = "video" ->
            << <<"pika", "pika-2.2-720p">>, <<"runway", "gen4_turbo">> >>
      [] category = "embeddings" ->
            << <<"cohere", "embed-english-v3.0">>,
               <<"openai", "text-embedding-3-small">> >>

AvailableIn(list) == {i \in DOMAIN list : list[i][1] \in settingsKeys}

\* C9: with no explicit provider and no explicit model the selection returns
\* the first pair of the category's priority list whose provider is available.
C9_FirstAvailableInPriorityList ==
    LET list == PriorityList(sel.category, sel.task_type)
    IN  (/\ sel.category # None
         /\ ~Truthy(sel.request_provider)
         /\ ~Truthy(sel.request_model)
         /\ AvailableIn(list) # {})
        => sel.result = Return(list[Min(AvailableIn(list))][1],
                               list[Min(AvailableIn(list))][2])

\* C10: when the caller names both a provider and a model the selection returns
\* that pair unchanged, also when the provider is not available; it does not fail.
C10_ExplicitPairReturned ==
    (/\ sel.category # None
     /\ Truthy(sel.request_provider)
     /\ Truthy(sel.request_model))
    => sel.result = Return(sel.request_provider, sel.request_model)

\* both were named, the provider has no key and the model name suggests
\* another provider
C10_Witness ==
    /\ sel.category = "text"
    /\ sel.request_provider = "sora"
    /\ sel.request_model = "Claude-3-Opus"
    /\ sel.request_provider \notin settingsKeys
    /\ sel.result.ok

\* C11: with no explicit provider and no explicit model, when no provider of
\* the category's priority list is available, the selection fails with the
\* error that tells the operator which keys to set (a ValueError in the code)
\* and returns no pair.
C11_NoProviderConfigured ==
    (/\ sel.category # None
     /\ ~Truthy(sel.request_provider)
     /\ ~Truthy(sel.request_model)
     /\ AvailableIn(PriorityList(sel.category, sel.task_type)) = {})
    => /\ ~sel.result.ok
       /\ sel.result.error = "ValueError"

\* C12: every value the caller names appears unchanged in the pair the
\* selection returns, in every category: a named provider is the provider of
\* the pair and a named model is the model of the pair.
C12_OverrideWins ==
    (sel.category # None /\ sel.result.ok)
    => /\ Truthy(sel.request_provider) => sel.result.provider = sel.request_provider
       /\ Truthy(sel.request_model) => sel.result.model = sel.request_model

(***************************************************************************)
(* Properties of the cost functions (SpecCost)                             *)
(***************************************************************************)
\* the rate of an item for a token type
RateOf(item, token_type) == IF token_type = "input" THEN item.input ELSE item.output

\* the built-in patterns of a provider that the model contains when case is
\* ignored
SettingsMatches(provider, model) ==
    {i \in DOMAIN SettingsPricing(provider) :
        Contains(Lower(Chars(model)), Lower(SettingsPricing(provider)[i].key))}

\* C13: for a model that equals no pricing key and contains a pricing key as
\* a substring when case is ignored, the cost is computed with the rates of a
\* key it contains, not with the default rates.
C13_PatternRateUsed ==
    /\ calc.fn = "calculate_cost" =>
          LET a == calc.args
              hits == PatternMatches(a.pricing, a.model)
          IN  (a.model \notin PricingKeysOf(a.pricing) /\ hits # {})
              => \E i \in hits :
                    calc.value = Round6(a.input_tokens * a.pricing[i].input
                                        + a.output_tokens * a.pricing[i].output)
    /\ calc.fn = "get_cost_per_1k_tokens" =>
          LET a == calc.args
              hits == SettingsMatches(a.provider, a.model)
          IN  hits # {}
              => \E i \in hits :
                    calc.value = RateOf(SettingsPricing(a.provider)[i], a.token_type)

\* C14: for a model that matches no pricing key, exactly or as a substring
\* (the pricing table may be empty or absent), the cost function returns the
\* cost at the default rate and does not raise.
C14_DefaultRateNeverRaises ==
    /\ calc.fn = "calculate_cost" =>
          LET a == calc.args
          IN  (a.model \notin PricingKeysOf(a.pricing)
               /\ PatternMatches(a.pricing, a.model) = {})
              => /\ calc.raised = None
                 /\ calc.value = Round6(a.input_tokens * DEFAULT_INPUT_RATE
                                        + a.output_tokens * DEFAULT_OUTPUT_RATE)
    /\ calc.fn = "embeddings_calculate_cost" =>
          LET a == calc.args
          IN  (a.model \notin PricingKeysOf(a.pricing)
               /\ PatternMatches(a.pricing, a.model) = {})
              => /\ calc.raised = None
                 /\ calc.value = Round6(a.total_tokens * EMBEDDINGS_DEFAULT_RATE)
    /\ calc.fn = "get_cost_per_1k_tokens" =>
          LET a == calc.args
          IN  SettingsMatches(a.provider, a.model) = {}
              => /\ calc.raised = None
                 /\ calc.value = IF a.token_type = "input" THEN DEFAULT_INPUT_RATE
                                 ELSE DEFAULT_OUTPUT_RATE

\* an embeddings model priced by a table that has other keys only, and a
\* chat model priced without any table, both charged at the default rate
C14_Witness ==
    \/ /\ calc.fn = "embeddings_calculate_cost"
       /\ calc.args.model = "my-model"
       /\ calc.args.pricing # <<>>
       /\ calc.args.total_tokens = 1000
       /\ calc.value = 100000
    \/ /\ calc.fn = "calculate_cost"
       /\ calc.args.pricing = <<>>
       /\ calc.args.input_tokens = 1000
       /\ calc.value > 0

(***************************************************************************)
(* Properties of the costs in the ledger (Spec)                            *)
(***************************************************************************)
\* C15: every provider call of a request that succeeded has a success record
\* whose input cost and output cost add up, after rounding to 6 decimals, to
\* the rounded cost the call reported; zero token counts included.
C15_CostSplitAddsUp ==
    \A k \in DOMAIN last.results :
        last.results[k].ok =>
            \E w \in DOMAIN last.writes :
                /\ last.writes[w].success
                /\ last.writes[w].call = k
                /\ RoundFrac6(FracSum(last.writes[w].input_cost_usd,
                                      last.writes[w].output_cost_usd))
                      = Round6(last.results[k].cost_usd)

\* C16: a record of an asset with a fixed price (an image of a given size and
\* quality) stores pseudo-units and a cost with cost = pseudo-units / 10000,
\* i.e. pseudo-units * 10^5 in 10^-9 USD.
C16_FixedPriceRoundTrip ==
    \A i \in DOMAIN ledger :
        (ledger[i].endpoint = "/generate-image" /\ ledger[i].success)
        => FracSum(ledger[i].input_cost_usd, ledger[i].output_cost_usd)
              = Whole((ledger[i].input_tokens + ledger[i].output_tokens) * 100000)

\* C18: every cost a provider call reports and every cost passed to the ledger
\* is a whole number of 10^-6 USD: it equals its own rounding to 6 decimals.
C18_CostsRounded ==
    /\ \A k \in DOMAIN last.results : last.results[k].cost_usd % 1000 = 0
    /\ \A w \in DOMAIN last.writes :
          /\ IsRounded6(last.writes[w].input_cost_usd)
          /\ IsRounded6(last.writes[w].output_cost_usd)

\* C19: a request that fails the structural check of the video handler (no
\* prompt_image) is answered with that check's own error, 400 IMAGE_REQUIRED,
\* and no provider call is made for it.
C19_PreconditionSurfacedVerbatim ==
    (\E i \in DOMAIN last.events : last.events[i] = "precondition_failed")
    => /\ last.status = 400
       /\ last.code = "IMAGE_REQUIRED"
       /\ last.calls = 0

\* the severity the thresholds give a month's cost against a budget
Severity(budget, cost) ==
    IF cost * 100 >= 100 * budget THEN "EXCEEDED"
    ELSE IF cost * 100 >= 90 * budget THEN "CRITICAL"
    ELSE IF cost * 100 >= 80 * budget THEN "WARNING"
    ELSE None

\* the alert values that name a severity
AlertNames(severity) ==
    CASE severity = "WARNING" -> {"WARNING", "budget_warning"}
      [] severity = "CRITICAL" -> {"CRITICAL", "budget_critical"}
      [] severity = "EXCEEDED" -> {"EXCEEDED", "budget_exceeded"}
      [] OTHER -> {None}

\* C17: for a client with a budget, the budget check returns none below 80% of
\* the budget, WARNING from 80%, CRITICAL from 90% and EXCEEDED from 100%
\* (79.99 / 80.00 / 90.00 / 100.01 of a budget of 100).
C17_BudgetThresholds ==
    (/\ calc.fn \in {"check_budget_alert", "get_current_month_usage"}
     /\ calc.args.monthly_budget_usd > 0
     /\ calc.args.has_row)
    => calc.value \in AlertNames(Severity(calc.args.monthly_budget_usd,
                                          calc.args.current_cost))

RunwayLoopStep ==
    /\ task.provider = "runway"
    /\ task.phase = "polling"
    /\ task'.status = task.status
    /\ task' # task

\* C29: the Runway polling loop returns the task only when the status it just
\* retrieved is SUCCEEDED; a FAILED or unrecognised status ends the loop with
\* an error; a PENDING or RUNNING status leads to another poll, poll_interval
\* later, until more than max_wait_seconds (300) have passed, and then (and
\* only then) the loop raises TimeoutError.
C29_PollingLoop ==
    [][RunwayLoopStep =>
         LET elapsed == task.clock - task.started
         IN  /\ task'.outcome = "ok" => task.status = "SUCCEEDED"
             /\ task.status \notin {"SUCCEEDED", "PENDING", "RUNNING"}
                   => /\ task'.phase = "done"
                      /\ task'.outcome \in {"Exception", "TimeoutError"}
             /\ task.status \in {"PENDING", "RUNNING"}
                   => IF elapsed > max_wait_seconds
                      THEN task'.phase = "done" /\ task'.outcome = "TimeoutError"
                      ELSE /\ task'.phase = "polling"
                           /\ task'.clock = task.clock + poll_interval
                           /\ task'.polls = task.polls + 1
             /\ task'.outcome = "TimeoutError" => elapsed > max_wait_seconds]_vars

\* a task that was still RUNNING at every poll until the limit had passed
C29_Witness ==
    /\ task.provider = "runway"
    /\ task.phase = "done"
    /\ task.outcome = "TimeoutError"
    /\ task.status = "RUNNING"
    /\ task.polls > 0

C22_PerSecondCost ==
    (calc.fn = "_calculate_cost" /\ calc.args.model \in {"nova-3", "my-model"})
    => /\ calc.raised = None
       /\ calc.value % 1000 = 0
       /\ LET exact60 == calc.args.audio_duration_seconds * 4300000
              diff == 60 * calc.value - exact60
          IN  2 * diff <= 60 * 1000 /\ 2 * diff >= -(60 * 1000)
       /\ calc.args.audio_duration_seconds = 125 => calc.value = 8958000

C22_Witness ==
    /\ calc.fn = "_calculate_cost"
    /\ calc.args.model = "nova-3"
    /\ calc.args.audio_duration_seconds = 125
    /\ calc.value = 8958000

(***************************************************************************)
(* Properties of the BillingService (SpecBilling)                          *)
(***************************************************************************)
\* C23: check_budget_alert is read-only: a call of it, in any state, leaves
\* the ledger and every client's budget as they were.
C23_CheckBudgetReadOnly ==
    [][calc'.fn = "check_budget_alert"
       => (ledger' = ledger /\ clientBudgets' = clientBudgets)]_vars

\* the check has raised its alert for a client with a budget over a ledger
\* that holds rows
C23_Witness ==
    /\ calc.fn = "check_budget_alert"
    /\ calc.value = "budget_warning"
    /\ Len(ledger) = MaxRecords
    /\ \E c \in Clients : clientBudgets[c] > 0

(***************************************************************************)
(* Further properties of the usage ledger (Spec)                           *)
(***************************************************************************)
\* C24: the ledger and the response agree: a request that called the provider
\* has a row with success = TRUE if and only if the caller receives a success
\* response, whatever runs after the ledger write.
C24_LedgerAgreesWithResponse ==
    last.calls > 0
    => ((\E i \in DOMAIN ledger :
            ledger[i].attempt = last.attempt /\ ledger[i].success)
        <=> last.status = 200)

\* C25: every row with success = FALSE carries zero cost and zero units, so a
\* failed request never adds to the client's billed total.
C25_FailedRowsCostNothing ==
    \A i \in DOMAIN ledger :
        ~ledger[i].success
        => /\ ledger[i].input_tokens = 0
           /\ ledger[i].output_tokens = 0
           /\ ledger[i].input_cost_usd.n = 0
           /\ ledger[i].output_cost_usd.n = 0

(***************************************************************************)
(* Further properties of the ProviderRegistry (SpecRegistry)               *)
(***************************************************************************)
\* C26: the instance that get_provider(name) returns was constructed by the
\* class now registered under name: registering a name again leaves no
\* instance of the replaced class reachable through get_provider.
C26_LookupMatchesRegistered ==
    \A name \in ProviderNames :
        get_provider(name) # NoneInstance
        => /\ name \in list_all_providers
           /\ get_provider(name).class = Get(providers, name)

\* C27: the available names are always registered names: initialize_provider
\* on a name that is not registered returns None and adds nothing, and
\* register leaves the available set as it was.
C27_AvailableSubsetOfKnown ==
    /\ [](/\ get_available_providers \subseteq list_all_providers
          /\ (lastOp.op = "initialize" /\ lastOp.beforeClass = None)
             => /\ lastOp.returned = NoneInstance
                /\ ~lastOp.constructed
                /\ get_provider(lastOp.name) = lastOp.beforeInstance)
    /\ [][lastOp'.op = "register" => instances' = instances]_vars

\* a name that is not registered has been initialized while another name is
\* available
C27_Witness ==
    /\ lastOp.op = "initialize"
    /\ lastOp.beforeClass = None
    /\ get_available_providers # {}

(***************************************************************************)
(* Properties of the adapters' cost functions (SpecCost)                   *)
(***************************************************************************)
\* C28: calculate_cost of a character- or duration-billed adapter, applied to
\* the pseudo-units the adapter reported for a call, gives the cost the
\* adapter reported for that call.
C28_EstimateReproducesCost ==
    calc.fn \in {"deepgram.calculate_cost", "elevenlabs.calculate_cost",
                 "runway.calculate_cost"}
    => calc.value = calc.args.response.cost_usd

\* the duration Runway accepts for a requested duration
NormalisedDuration(requested) ==
    IF requested \in {5, 10} THEN requested
    ELSE IF requested <= 7 THEN 5 ELSE 10

\* C30: for any requested duration the Runway adapter sends one normalised
\* duration in {5, 10} to the provider (5 if the request is at most 7,
\* otherwise 10, unchanged if already 5 or 10) and computes the cost and the
\* pseudo-units from that same duration.
C30_OneNormalisedDuration ==
    calc.fn = "runway.calculate_cost" =>
        LET a == calc.args
        IN  /\ a.response.duration \in {5, 10}
            /\ a.response.duration = NormalisedDuration(a.request)
            /\ a.response.input_tokens = a.response.duration * 100
            /\ a.response.cost_usd
                  = Round4(MODEL_CREDITS(a.model) * a.response.duration * CREDIT_COST_USD)

\* 8 seconds requested of gen4_turbo: 10 seconds sent and billed, 0.50 USD
C30_Witness ==
    /\ calc.fn = "runway.calculate_cost"
    /\ calc.args.model = "gen4_turbo"
    /\ calc.args.request = 8
    /\ calc.args.response.duration = 10
    /\ calc.args.response.cost_usd = 500000000

====
